---- MODULE Spec2Model ----
(***************************************************************************)
(* A model of pdfgen (src/pdfgen.go): a PDFDoc writes PDF objects and      *)
(* content-stream operators straight to an io.Writer.  The Writer is the   *)
(* variable sink, a sequence of tokens <<kind, number>>, one token for     *)
(* each structural piece the format strings of lines 26-41 write.          *)
(***************************************************************************)
EXTENDS Integers, Sequences, FiniteSets, TLC

VARIABLES
    sink,         \* p.Writer: everything written so far, in order
    objectcount,  \* p.objectcount
    calls,        \* the calls the caller has made so far, in order
    misuse,       \* how many of them were outside the call protocol
    stderr,       \* the messages Image printed to os.Stderr
    openfiles,    \* files opened by os.Open and not yet closed
    panicked,     \* a run-time panic has ended the program
    s,            \* the string the caller hands to Text
    img           \* the raster handed to imagestream's encoders

vars ==
    <<sink, objectcount, calls, misuse, stderr, openfiles, panicked, s, img>>

(***************************************************************************)
(* Bounds of the model.                                                    *)
(***************************************************************************)
MaxPages == 2
MaxMisuse == 1
MaxDraws == 1
MaxVerts == 2
MaxLen == 3
MaxPixels == 2
MaxSide == 3

Tok(t, n) == <<t, n>>

NoImage == [kind |-> "none", w |-> 0, h |-> 0, Pix |-> <<>>]

Last(q) == q[Len(q)]

\* The tokens of w written after the first k ones.
Written(w, k) == SubSeq(w, k + 1, Len(w))

Count(w, t) == Cardinality({k \in 1..Len(w) : w[k][1] = t})

(***************************************************************************)
(* The call protocol of section 4.1 of the specification.  The code does   *)
(* not track it: it is the caller's side, used to tell a well-formed call  *)
(* from a malformed one.                                                   *)
(***************************************************************************)
Inited(c) == \E k \in 1..Len(c) : c[k][1] = "Init"

\* The page count the first Init declared.
Declared(c) == c[CHOOSE k \in 1..Len(c) : c[k][1] = "Init"][2]

Ended(c) == \E k \in 1..Len(c) : c[k][1] = "EndDoc"

\* A NewPage that no later EndPage has closed.
PageOpen(c) ==
    \E k \in 1..Len(c) :
        /\ c[k][1] = "NewPage"
        /\ \A j \in (k + 1)..Len(c) : c[j][1] # "EndPage"

DrawNames ==
    {"Rect", "Polygon", "Image", "Text", "FillArc", "Arc", "Circle", "Ellipse"}

NDraws(c) == Cardinality({k \in 1..Len(c) : c[k][1] \in DrawNames})

InProtocol(c, name) ==
    CASE name = "Init" -> c = <<>>
      [] name = "NewPage" ->
            /\ Inited(c) /\ ~Ended(c) /\ ~PageOpen(c)
            /\ Count(c, "NewPage") < Declared(c)
      [] name = "EndPage" -> ~Ended(c) /\ PageOpen(c)
      [] name = "EndDoc" -> Inited(c) /\ ~Ended(c) /\ ~PageOpen(c)
      [] OTHER -> ~Ended(c) /\ PageOpen(c)

\* A call is explored when it follows the protocol or the budget of
\* malformed calls is not used up; a panic ends the program.
MayCall(name) ==
    /\ ~panicked
    /\ InProtocol(calls, name) \/ misuse < MaxMisuse
    /\ name \in DrawNames => NDraws(calls) < MaxDraws

Called(name, args) ==
    /\ calls' = Append(calls, <<name, args>>)
    /\ misuse' = IF InProtocol(calls, name) THEN misuse ELSE misuse + 1

(***************************************************************************)
(* The document model, lines 138-208.                                      *)
(***************************************************************************)
\* The document NewDoc returns, nothing written and no call made yet.
Fresh ==
    /\ sink = <<>>
    /\ objectcount = 0
    /\ calls = <<>>
    /\ misuse = 0
    /\ stderr = <<>>
    /\ openfiles = 0
    /\ panicked = FALSE

NewDoc == Fresh /\ s = <<>> /\ img = NoImage

\* The loop of root: objref starts at 3 and advances by 2 for each page.
RECURSIVE KidRefs(_, _, _)
KidRefs(i, objref, npages) ==
    IF i < npages
    THEN <<Tok("kid", objref)>> \o KidRefs(i + 1, objref + 2, npages)
    ELSE <<>>

root(npages) ==
    <<Tok("obj", 1)>> \o KidRefs(0, 3, npages)
        \o <<Tok("count", npages), Tok("endobj", 0)>>

resources == <<Tok("obj", 2), Tok("font", 0), Tok("endobj", 0)>>

Init(n) ==
    /\ MayCall("Init")
    /\ sink' = sink \o <<Tok("header", 0)>> \o root(n) \o resources
    /\ objectcount' = objectcount + 2
    /\ Called("Init", n)
    /\ UNCHANGED <<stderr, openfiles, panicked, s, img>>

EndPageNoCount ==
    /\ MayCall("EndPage")
    /\ sink' = sink \o <<Tok("endstream", 0), Tok("endobj", 0)>>
    /\ objectcount' = objectcount
    /\ Called("EndPage", 0)
    /\ UNCHANGED <<stderr, openfiles, panicked, s, img>>

EndPage ==
    /\ MayCall("EndPage")
    /\ sink' = sink \o <<Tok("endstream", 0), Tok("endobj", 0)>>
    /\ objectcount' = objectcount + 1
    /\ Called("EndPage", 0)
    /\ UNCHANGED <<stderr, openfiles, panicked, s, img>>

EndDoc ==
    /\ MayCall("EndDoc")
    /\ sink' = sink \o <<Tok("trailer", objectcount)>>
    /\ Called("EndDoc", 0)
    /\ UNCHANGED <<objectcount, stderr, openfiles, panicked, s, img>>

PageObjOld(n) == n + 2

\* obj := (2 * n) + 1
PageObj(n) == (2 * n) + 1

\* ref := obj + 1
PageRef(n) == PageObj(n) + 1

NewPage(n) ==
    /\ MayCall("NewPage")
    /\ sink' = sink \o <<Tok("obj", PageObj(n)), Tok("contents", PageRef(n)),
                         Tok("endobj", 0), Tok("obj", PageRef(n)),
                         Tok("stream", 0)>>
    /\ objectcount' = objectcount + 1
    /\ Called("NewPage", n)
    /\ UNCHANGED <<stderr, openfiles, panicked, s, img>>

Rect ==
    /\ MayCall("Rect")
    /\ sink' = sink \o <<Tok("rg", 0), Tok("re", 0)>>
    /\ Called("Rect", 0)
    /\ UNCHANGED <<objectcount, stderr, openfiles, panicked, s, img>>

\* The caller numbers the next page from 0 or from 1.
PageArgs == {Count(calls, "NewPage"), Count(calls, "NewPage") + 1}

Next ==
    \/ \E n \in 1..MaxPages : Init(n)
    \/ \E n \in PageArgs : NewPage(n)
    \/ EndPage
    \/ EndDoc
    \/ Rect

Spec == NewDoc /\ [][Next]_vars

(***************************************************************************)
(* The pixel encoders, lines 43-107.  A decoded raster is a record         *)
(* [kind, w, h, Pix]: Pix holds four samples for each pixel, row by row.   *)
(* For kind "RGBA" and "NRGBA" they are the bytes of img.Pix; for any      *)
(* other kind they are the 16-bit values img.At(x, y).RGBA() returns.      *)
(***************************************************************************)
Zeros(n) == [k \in 1..n |-> 0]

Bytes(buf) == [k \in 1..Len(buf) |-> Tok("byte", buf[k])]

\* The loop of encodeNRGBAStream: the three colour bytes are copied.
RECURSIVE NRGBALoop(_, _, _, _)
NRGBALoop(Pix, i, j, buf) ==
    IF i < Len(Pix)
    THEN NRGBALoop(Pix, i + 4, j + 3,
                   [buf EXCEPT ![j + 1] = Pix[i + 1],
                               ![j + 2] = Pix[i + 2],
                               ![j + 3] = Pix[i + 3]])
    ELSE buf

encodeNRGBAStream(w, im) ==
    w \o Bytes(NRGBALoop(im.Pix, 0, 0, Zeros(3 * im.w * im.h)))

\* uint16(c) * 0xff: the product in 16 bits.
Mul16(c) == (c * 255) % 65536

Unpremul8(c, a) == (((c * 255) % 256) \div a) % 256

\* byte(uint16(c) * 0xff / a): the 16-bit product, divided, cut to a byte.
Unpremul(c, a) == (Mul16(c) \div a) % 256

\* The loop of encodeRGBAStream: i walks Pix by 4, j walks buf by 3.
RECURSIVE RGBALoop(_, _, _, _)
RGBALoop(Pix, i, j, buf) ==
    IF i < Len(Pix)
    THEN LET a == Pix[i + 4]
             nbuf == IF a # 0
                     THEN [buf EXCEPT ![j + 1] = Unpremul(Pix[i + 1], a),
                                      ![j + 2] = Unpremul(Pix[i + 2], a),
                                      ![j + 3] = Unpremul(Pix[i + 3], a)]
                     ELSE buf
         IN  RGBALoop(Pix, i + 4, j + 3, nbuf)
    ELSE buf

encodeRGBAStreamCopy(w, im) ==
    w \o Bytes(NRGBALoop(im.Pix, 0, 0, Zeros(3 * im.w * im.h)))

encodeRGBAStream(w, im) ==
    w \o Bytes(RGBALoop(im.Pix, 0, 0, Zeros(3 * im.w * im.h)))

\* The four base-256 digits of the uint32 product c * 65535, most
\* significant first.  For a 16-bit c the product is below 2^32 and does
\* not wrap; it is c * 65536 - c = (c - 1) * 65536 + (65536 - c).
Product16(c) ==
    IF c = 0
    THEN <<0, 0, 0, 0>>
    ELSE <<(c - 1) \div 256, (c - 1) % 256,
           (65536 - c) \div 256, (65536 - c) % 256>>

\* uint8((c * 65535 / a) >> 8) on uint32 values: the second lowest
\* base-256 digit of the quotient, by long division of the digits.
Unpremul16(c, a) ==
    LET d == Product16(c)
        r1 == d[1] % a
        r2 == (r1 * 256 + d[2]) % a
    IN  ((r2 * 256 + d[3]) \div a) % 256

\* One row of encodeImageStream: x walks the row, i walks row by 3.
RECURSIVE RowLoop(_, _, _, _, _)
RowLoop(im, y, x, i, row) ==
    IF x < im.w
    THEN LET at == 4 * (y * im.w + x)
             a == im.Pix[at + 4]
             nrow == IF a # 0
                     THEN [row EXCEPT ![i + 1] = Unpremul16(im.Pix[at + 1], a),
                                      ![i + 2] = Unpremul16(im.Pix[at + 2], a),
                                      ![i + 3] = Unpremul16(im.Pix[at + 3], a)]
                     ELSE [row EXCEPT ![i + 1] = 0, ![i + 2] = 0, ![i + 3] = 0]
         IN  RowLoop(im, y, x + 1, i + 3, nrow)
    ELSE row

\* The rows of encodeImageStream: the same row buffer is filled and
\* written once for each y.
RECURSIVE RowsLoop(_, _, _, _)
RowsLoop(w, im, y, row) ==
    IF y < im.h
    THEN LET nrow == RowLoop(im, y, 0, 0, row)
         IN  RowsLoop(w \o Bytes(nrow), im, y + 1, nrow)
    ELSE w

encodeImageStream(w, im) == RowsLoop(w, im, 0, Zeros(im.w * 3))

\* One channel of color.YCbCrToRGB: a 16.16 fixed-point value cut to a
\* byte, 0 below the range and 255 above it.
Clamp(v) == IF v < 0 THEN 0 ELSE IF v >= 16777216 THEN 255 ELSE v \div 65536

\* color.YCbCrToRGB of the standard library, in its int32 arithmetic.
YCbCrToRGB(yy, cb, cr) ==
    LET yy1 == yy * 65793
        cb1 == cb - 128
        cr1 == cr - 128
    IN  <<Clamp(yy1 + 91881 * cr1),
          Clamp(yy1 - 22554 * cb1 - 46802 * cr1),
          Clamp(yy1 + 116130 * cb1)>>

ChromaIndexNoFallthrough(ratio, x, y) ==
    <<IF ratio = "422" THEN x \div 2 ELSE x,
      IF ratio = "420" THEN y \div 2 ELSE y>>

\* The switch on img.SubsampleRatio: i, j = x, y; the 4:2:0 case halves j
\* and falls through to the 4:2:2 case, which halves i.
ChromaIndex(ratio, x, y) ==
    <<IF ratio \in {"420", "422"} THEN x \div 2 ELSE x,
      IF ratio = "420" THEN y \div 2 ELSE y>>

\* The loops of encodeYCbCrStream: y walks the rows, x the columns, bi
\* walks buf by 3.  A YCbCr raster is a record [kind, w, h, ratio, YStride,
\* CStride, Y, Cb, Cr].
RECURSIVE YCbCrLoop(_, _, _, _, _)
YCbCrLoop(im, y, x, bi, buf) ==
    IF y < im.h
    THEN IF x < im.w
         THEN LET ij == ChromaIndex(im.ratio, x, y)
                  yy == im.Y[y * im.YStride + x + 1]
                  cb == im.Cb[ij[2] * im.CStride + ij[1] + 1]
                  cr == im.Cr[ij[2] * im.CStride + ij[1] + 1]
                  rgb == YCbCrToRGB(yy, cb, cr)
              IN  YCbCrLoop(im, y, x + 1, bi + 3,
                            [buf EXCEPT ![bi + 1] = rgb[1],
                                        ![bi + 2] = rgb[2],
                                        ![bi + 3] = rgb[3]])
         ELSE YCbCrLoop(im, y + 1, 0, bi, buf)
    ELSE buf

encodeYCbCrStream(w, im) ==
    w \o Bytes(YCbCrLoop(im, 0, 0, 0, Zeros(3 * im.w * im.h)))

\* The type switch of imagestream.
imagestream(w, im) ==
    CASE im.kind = "RGBA" -> encodeRGBAStream(w, im)
      [] im.kind = "NRGBA" -> encodeNRGBAStream(w, im)
      [] im.kind = "YCbCr" -> encodeYCbCrStream(w, im)
      [] OTHER -> encodeImageStream(w, im)

(***************************************************************************)
(* Polygon and Image, lines 226-257.                                       *)
(***************************************************************************)
Coords == {10}

CoordLists == UNION {[1..n -> Coords] : n \in 0..MaxVerts}

\* The loop of Polygon: one line operator for each vertex after the first.
RECURSIVE PolyLoop(_, _, _)
PolyLoop(x, y, i) ==
    IF i < Len(x)
    THEN <<<<"l", x[i + 1], y[i + 1]>>>> \o PolyLoop(x, y, i + 1)
    ELSE <<>>

\* Lists of different lengths: Polygon returns at once.  Two empty lists:
\* x[0] is evaluated and the index is out of range.
Polygon(x, y) ==
    /\ MayCall("Polygon")
    /\ Called("Polygon", <<x, y>>)
    /\ IF Len(x) # Len(y)
       THEN UNCHANGED <<sink, panicked>>
       ELSE IF Len(x) = 0
            THEN panicked' = TRUE /\ UNCHANGED sink
            ELSE /\ sink' = sink \o <<Tok("rg", 0), <<"m", x[1], y[1]>>>>
                              \o PolyLoop(x, y, 1) \o <<<<"lf", x[1], y[1]>>>>
                 /\ UNCHANGED panicked
    /\ UNCHANGED <<objectcount, stderr, openfiles, s, img>>

\* The files an Image call may name: one os.Open cannot open, one
\* image.Decode cannot decode, and two that decode.
Files == {"missing.png", "corrupt.png", "rgba.png", "nrgba.png"}

Opens(name) == name # "missing.png"

\* image.Decode: the raster, or no raster (a nil image.Image) and an error.
Decode(name) ==
    CASE name = "rgba.png" ->
            [kind |-> "RGBA", w |-> 1, h |-> 1, Pix |-> <<128, 0, 0, 255>>]
      [] name = "nrgba.png" ->
            [kind |-> "NRGBA", w |-> 1, h |-> 1, Pix |-> <<10, 20, 30, 0>>]
      [] OTHER -> NoImage

\* os.Open fails: a message on os.Stderr, and Image returns.  Otherwise
\* the inline-image head and "ID " are written and imagestream runs.  With
\* no raster its type switch takes the default case and encodeImageStream
\* calls Bounds() on a nil image.Image: the program panics there, the head
\* written and the file open.  With a raster the bytes, " EI" and "Q" are
\* written and the file is closed.
Image(name) ==
    /\ MayCall("Image")
    /\ Called("Image", name)
    /\ IF ~Opens(name)
       THEN /\ stderr' = Append(stderr, "open")
            /\ UNCHANGED <<sink, openfiles, panicked>>
       ELSE LET head == sink \o <<Tok("q", 0), Tok("cm", 0), Tok("BI", 0),
                                  Tok("ID", 0)>>
                im == Decode(name)
            IN  IF im = NoImage
                THEN /\ sink' = head
                     /\ openfiles' = openfiles + 1
                     /\ panicked' = TRUE
                     /\ UNCHANGED stderr
                ELSE /\ sink' = imagestream(head, im)
                                    \o <<Tok("EI", 0), Tok("Q", 0)>>
                     /\ openfiles' = (openfiles + 1) - 1
                     /\ UNCHANGED <<stderr, panicked>>
    /\ UNCHANGED <<objectcount, s, img>>

NextDraw ==
    \/ Init(1)
    \/ NewPage(1)
    \/ \E x \in CoordLists, y \in CoordLists : Polygon(x, y)
    \/ \E name \in Files : Image(name)

SpecDraw == NewDoc /\ [][NextDraw]_vars

(***************************************************************************)
(* Claims about the document model and the drawing calls.                  *)
(***************************************************************************)
\* The call sequence Init(pc), then NewPage(i), EndPage() for i = 0..pc-1,
\* then EndDoc().
ClaimCalls(pc) ==
    [k \in 1..(2 * pc + 2) |->
        IF k = 1 THEN <<"Init", pc>>
        ELSE IF k = 2 * pc + 2 THEN <<"EndDoc", 0>>
        ELSE IF k % 2 = 0 THEN <<"NewPage", (k - 2) \div 2>>
        ELSE <<"EndPage", 0>>]

\* C1: after Init(pc), NewPage(i) and EndPage() for each i = 0..pc-1 and
\* EndDoc(), the Size the trailer declares is the number of objects written
\* to the sink, and that number is 2 + 2 * pc.
C1_TrailerSize ==
    \A pc \in 1..MaxPages :
        calls = ClaimCalls(pc) =>
            /\ Last(sink)[1] = "trailer"
            /\ Last(sink)[2] = Count(sink, "obj")
            /\ Count(sink, "obj") = 2 + 2 * pc

C1_Witness ==
    /\ calls = ClaimCalls(2)
    /\ Last(sink) = Tok("trailer", 6)

\* The kid references the catalog lists, in order.
Kids(w) == SelectSeq(w, LAMBDA t : t[1] = "kid")

\* The five tokens the last NewPage wrote end the sink.
LastPageObj == sink[Len(sink) - 4][2]

LastContents == sink[Len(sink) - 3][2]

LastStreamObj == sink[Len(sink) - 1][2]

FailedImage(c) == c[1] = "Image" /\ (~Opens(c[2]) \/ Decode(c[2]) = NoImage)

\* A begin-image marker with no end marker after it.
Unterminated(w) ==
    \E k \in 1..Len(w) :
        /\ w[k][1] = "BI"
        /\ \A j \in (k + 1)..Len(w) : w[j][1] # "EI"

\* C3: in every state after a failed Image call the sink holds no
\* begin-image marker without its end marker.
C3_Original ==
    (misuse = 0 /\ \E k \in 1..Len(calls) : FailedImage(calls[k]))
    => ~Unterminated(sink)

\* The step is a call of this name.
Step(name) == Len(calls') = Len(calls) + 1 /\ Last(calls')[1] = name

\* The step told the caller of a failure: a message on os.Stderr or a
\* panic (no operation of PDFDoc returns a value).
Reported == Len(stderr') > Len(stderr) \/ (panicked' /\ ~panicked)

\* C4: Polygon with coordinate lists of different lengths writes nothing
\* to the sink and signals the failure to the caller.
C4_Original ==
    [][(/\ Step("Polygon")
        /\ misuse' = 0
        /\ Len(Last(calls')[2][1]) # Len(Last(calls')[2][2]))
       => (sink' = sink /\ Reported)]_vars

\* The malformed calls of the claim: a drawing call with no page open, an
\* EndPage with no page open, a second EndDoc.
Malformed(c, name) ==
    \/ name \in DrawNames /\ ~PageOpen(c)
    \/ name = "EndPage" /\ ~PageOpen(c)
    \/ name = "EndDoc" /\ Ended(c)

\* C5: a malformed call is reported to the caller and leaves the sink and
\* the object counter as they were.
C5_Original ==
    [][(Len(calls') = Len(calls) + 1 /\ Malformed(calls, Last(calls')[1]))
       => (sink' = sink /\ objectcount' = objectcount /\ Reported)]_vars

\* C6: no Image call ends with the file it opened still open.
C6_Original ==
    (misuse = 0 /\ calls # <<>> /\ Last(calls)[1] = "Image") => openfiles = 0

(***************************************************************************)
(* Text and pdfstring, lines 156-163 and 221-224.  A string is a sequence  *)
(* of characters.                                                          *)
(***************************************************************************)
Alphabet == {"(", ")", "\\", "\r", "r", "a"}

Strings == UNION {[1..n -> Alphabet] : n \in 0..MaxLen}

\* strings.Replace(str, old, new, -1) for a one-character old.
RECURSIVE Replace(_, _, _)
Replace(str, old, new) ==
    IF str = <<>>
    THEN <<>>
    ELSE IF Head(str) = old
         THEN new \o Replace(Tail(str), old, new)
         ELSE <<Head(str)>> \o Replace(Tail(str), old, new)

pdfstringBackslashLast(str) ==
    LET s1 == Replace(str, "(", <<"\\", "(">>)
        s2 == Replace(s1, ")", <<"\\", ")">>)
        s3 == Replace(s2, "\r", <<"\\", "r">>)
    IN  Replace(s3, "\\", <<"\\", "\\">>)

\* The four replacements of pdfstring, the backslash first.
pdfstring(str) ==
    LET s1 == Replace(str, "\\", <<"\\", "\\">>)
        s2 == Replace(s1, "(", <<"\\", "(">>)
        s3 == Replace(s2, ")", <<"\\", ")">>)
    IN  Replace(s3, "\r", <<"\\", "r">>)

Text ==
    /\ MayCall("Text")
    /\ sink' = sink \o <<Tok("BT", 0), Tok("Tf", 0), Tok("Td", 0), Tok("rg", 0),
                         Tok("Tj", pdfstring(s)), Tok("ET", 0)>>
    /\ Called("Text", s)
    /\ UNCHANGED <<objectcount, stderr, openfiles, panicked, s, img>>

NewDocText == Fresh /\ s \in Strings /\ img = NoImage

NextText ==
    \/ Init(1)
    \/ NewPage(1)
    \/ Text

SpecText == NewDocText /\ [][NextText]_vars

\* Each character escaped on its own, as the claim words it.
RECURSIVE Escaped(_)
Escaped(str) ==
    IF str = <<>>
    THEN <<>>
    ELSE (CASE Head(str) \in {"(", ")", "\\"} -> <<"\\", Head(str)>>
            [] Head(str) = "\r" -> <<"\\", "r">>
            [] OTHER -> <<Head(str)>>) \o Escaped(Tail(str))

\* The inverse of the escaping: a backslash and the character after it
\* give that character, or a carriage return when it is an r.
RECURSIVE Unescape(_)
Unescape(str) ==
    IF str = <<>>
    THEN <<>>
    ELSE IF Head(str) = "\\" /\ Len(str) >= 2
         THEN <<IF str[2] = "r" THEN "\r" ELSE str[2]>>
                  \o Unescape(SubSeq(str, 3, Len(str)))
         ELSE <<Head(str)>> \o Unescape(Tail(str))

\* The string the last Text call wrote into its Tj operator.
LastTj == sink[Len(sink) - 1][2]

\* C8: the string Text writes is its argument with each ( ) and \ preceded
\* by one added \ and each carriage return replaced by \ r, the other
\* characters unchanged and in order; unescaping it gives the argument back.
C8_Escaping ==
    (calls # <<>> /\ Last(calls)[1] = "Text")
    => /\ LastTj = Escaped(Last(calls)[2])
       /\ Unescape(LastTj) = Last(calls)[2]

C8_Witness ==
    /\ calls # <<>>
    /\ Last(calls) = <<"Text", <<"(", "\\", "\r">>>>
    /\ LastTj = <<"\\", "(", "\\", "\\", "\\", "r">>

(***************************************************************************)
(* The encoders on their own: one decoded raster, encoded once into an     *)
(* empty sink.                                                             *)
(***************************************************************************)
Pixels8 ==
    {<<0, 0, 0, 0>>, <<10, 20, 30, 0>>, <<255, 255, 255, 0>>,
     <<128, 0, 0, 255>>, <<64, 32, 0, 128>>}

Pixels16 ==
    {<<0, 0, 0, 0>>, <<4660, 0, 65535, 0>>, <<32896, 0, 0, 65535>>,
     <<16448, 8224, 0, 32896>>}

Shapes == {sh \in (1..MaxPixels) \X (1..MaxPixels) : sh[1] * sh[2] <= MaxPixels}

\* The samples of the pixels f[1], f[2], ... laid out as Pix holds them.
Flatten(f) ==
    [k \in 1..(4 * Len(f)) |-> f[((k - 1) \div 4) + 1][((k - 1) % 4) + 1]]

RastersOf(kind, pixels) ==
    UNION {{[kind |-> kind, w |-> sh[1], h |-> sh[2], Pix |-> Flatten(f)] :
                f \in [1..(sh[1] * sh[2]) -> pixels]} : sh \in Shapes}

\* Every one-pixel premultiplied raster <<r, 0, a, a>> over the whole
\* byte range of r and a.
OnePixel ==
    {[kind |-> "RGBA", w |-> 1, h |-> 1, Pix |-> <<r, 0, a, a>>] :
        r \in 0..255, a \in 0..255}

Rasters ==
    RastersOf("RGBA", Pixels8) \cup RastersOf("NRGBA", Pixels8)
        \cup RastersOf("Generic", Pixels16) \cup OnePixel

NewDocPix == Fresh /\ s = <<>> /\ img \in Rasters

Encode ==
    /\ calls = <<>>
    /\ sink' = imagestream(sink, img)
    /\ calls' = <<<<"imagestream", img.kind>>>>
    /\ UNCHANGED <<objectcount, misuse, stderr, openfiles, panicked, s, img>>

NextPix == Encode

SpecPix == NewDocPix /\ [][NextPix]_vars

Encoded == calls # <<>> /\ calls[1][1] = "imagestream"

NPixels == img.w * img.h

AlphaZero == \A p \in 0..(NPixels - 1) : img.Pix[4 * p + 4] = 0

\* C7 as stated: a raster of any encoding with alpha whose alpha is 0
\* everywhere is encoded as 3*w*h bytes, every one of them 0.
C7_Original ==
    (Encoded /\ AlphaZero)
    => /\ Len(sink) = 3 * NPixels
       /\ \A k \in 1..Len(sink) : sink[k] = Tok("byte", 0)

\* C7 amended: such a raster is encoded as 3*w*h bytes; for premultiplied
\* RGB+alpha and on the generic path every byte is 0, and for straight
\* RGB+alpha the bytes are the stored colour bytes, copied.
C7_ZeroAlpha ==
    (Encoded /\ AlphaZero)
    => /\ Len(sink) = 3 * NPixels
       /\ img.kind # "NRGBA" => \A k \in 1..Len(sink) : sink[k] = Tok("byte", 0)
       /\ img.kind = "NRGBA" =>
            \A p \in 0..(NPixels - 1) : \A c \in 1..3 :
                sink[3 * p + c] = Tok("byte", img.Pix[4 * p + c])

C7_Witness ==
    /\ Encoded
    /\ AlphaZero
    /\ img.kind = "RGBA"
    /\ NPixels = 2
    /\ img.Pix[1] = 255
    /\ sink[1] = Tok("byte", 0)

\* C9: in encodeRGBAStream a pixel with alpha 255 keeps its three colour
\* bytes; the 16-bit product of a colour byte and 255 does not wrap; and
\* with alpha a in 1..255 and a colour byte c <= a the byte written is
\* floor(c * 255 / a), which is at most 255.
C9_Unpremultiply ==
    (Encoded /\ img.kind = "RGBA")
    => \A p \in 0..(NPixels - 1) : \A c \in 1..3 :
          LET x == img.Pix[4 * p + c]
              a == img.Pix[4 * p + 4]
              out == sink[3 * p + c][2]
          IN  /\ a = 255 => out = x
              /\ Mul16(x) = x * 255
              /\ (a >= 1 /\ x <= a) =>
                    (out = (x * 255) \div a /\ (x * 255) \div a <= 255)

C9_Witness ==
    /\ Encoded
    /\ img.Pix = <<128, 0, 0, 255>>
    /\ sink = <<Tok("byte", 128), Tok("byte", 0), Tok("byte", 0)>>

(***************************************************************************)
(* Arcs, lines 279-326.  Angles are whole degrees at the calls; arcdata    *)
(* works in exact units of 1/(2n) of a degree, so that an n-th of a sweep  *)
(* and the half of it are whole numbers.  A point of the ellipse is named  *)
(* by its angle: the sines and cosines are not computed.                   *)
(***************************************************************************)
n == 16

Centres == {<<0, 0>>, <<100, 50>>}

Radii == {1, 50}

Sweeps == {<<0, 360>>, <<30, 90>>}

arcdataShifted(i, x, y, w, h, angle1, angle2) ==
    LET a1 == 2 * n * angle1 + 2 * (angle2 - angle1) * (i + 1)
        a2 == 2 * n * angle1 + 2 * (angle2 - angle1) * (i + 2)
    IN  [c |-> <<x, y>>, r |-> <<w, h>>, a1 |-> a1,
         am |-> a1 + (a2 - a1) \div 2, a2 |-> a2]

\* a1 and a2 bound the i-th n-th of the sweep; the control point comes
\* from the points at a1, at the middle a1 + (a2 - a1)/2 and at a2.
arcdata(i, x, y, w, h, angle1, angle2) ==
    LET a1 == 2 * n * angle1 + 2 * (angle2 - angle1) * (i + 0)
        a2 == 2 * n * angle1 + 2 * (angle2 - angle1) * (i + 1)
    IN  [c |-> <<x, y>>, r |-> <<w, h>>, a1 |-> a1,
         am |-> a1 + (a2 - a1) \div 2, a2 |-> a2]

\* The loops of FillArc and Arc: one operator group for each i < n.
RECURSIVE ArcLoop(_, _, _, _, _, _, _, _)
ArcLoop(op, i, x, y, w, h, angle1, angle2) ==
    IF i < n
    THEN <<Tok(op, arcdata(i, x, y, w, h, angle1, angle2))>>
            \o ArcLoop(op, i + 1, x, y, w, h, angle1, angle2)
    ELSE <<>>

\* FillArc, called by the caller or by Circle or Ellipse (as).
FillArcAs(as, args, x, y, w, h, angle1, angle2) ==
    /\ MayCall(as)
    /\ sink' = sink \o ArcLoop("fillarc", 0, x, y, w, h, angle1, angle2)
    /\ Called(as, args)
    /\ UNCHANGED <<objectcount, stderr, openfiles, panicked, s, img>>

FillArc(x, y, w, h, angle1, angle2) ==
    FillArcAs("FillArc", <<x, y, w, h, angle1, angle2>>,
              x, y, w, h, angle1, angle2)

Circle(x, y, r) == FillArcAs("Circle", <<x, y, r>>, x, y, r, r, 0, 360)

Ellipse(x, y, w, h) == FillArcAs("Ellipse", <<x, y, w, h>>, x, y, w, h, 0, 360)

Arc(x, y, w, h, angle1, angle2) ==
    /\ MayCall("Arc")
    /\ sink' = sink \o <<Tok("RG", 0), Tok("w", 0)>>
                    \o ArcLoop("arc", 0, x, y, w, h, angle1, angle2)
    /\ Called("Arc", <<x, y, w, h, angle1, angle2>>)
    /\ UNCHANGED <<objectcount, stderr, openfiles, panicked, s, img>>

NextArc ==
    \/ Init(1)
    \/ NewPage(1)
    \/ \E c \in Centres, w \in Radii, h \in Radii, sw \in Sweeps :
          FillArc(c[1], c[2], w, h, sw[1], sw[2])
    \/ \E c \in Centres, w \in Radii, h \in Radii, sw \in Sweeps :
          Arc(c[1], c[2], w, h, sw[1], sw[2])
    \/ \E c \in Centres, r \in Radii : Circle(c[1], c[2], r)
    \/ \E c \in Centres, w \in Radii, h \in Radii : Ellipse(c[1], c[2], w, h)

SpecArc == NewDoc /\ [][NextArc]_vars

\* The step is a FillArc or an Arc over 0 to 360 degrees, or a Circle or
\* an Ellipse.
FullSweep ==
    /\ Len(calls') = Len(calls) + 1
    /\ \/ Last(calls')[1] \in {"Circle", "Ellipse"}
       \/ /\ Last(calls')[1] \in {"FillArc", "Arc"}
          /\ Last(calls')[2][5] = 0
          /\ Last(calls')[2][6] = 360

\* The sub-arc operator groups among the tokens w.
Groups(w) == SelectSeq(w, LAMBDA t : t[1] \in {"fillarc", "arc"})

\* The centre and the radii the call of the step asks for.
AskedCentre == <<Last(calls')[2][1], Last(calls')[2][2]>>

AskedRadii ==
    IF Last(calls')[1] = "Circle"
    THEN <<Last(calls')[2][3], Last(calls')[2][3]>>
    ELSE <<Last(calls')[2][3], Last(calls')[2][4]>>

\* C10: a FillArc or Arc over 0 to 360 degrees, a Circle or an Ellipse
\* adds exactly 16 sub-arc groups to the sink, the i-th of them (i = 0..15)
\* running from i/16 to (i+1)/16 of the full turn, on the centre and the
\* radii asked for.  Angles are in units of 1/32 degree: a sixteenth of
\* the turn is 720.
C10_SixteenGroups ==
    [][FullSweep =>
        LET g == Groups(Written(sink', Len(sink)))
        IN  /\ SubSeq(sink', 1, Len(sink)) = sink
            /\ Len(g) = 16
            /\ \A i \in 0..15 :
                  /\ g[i + 1][2].a1 = 720 * i
                  /\ g[i + 1][2].a2 = 720 * (i + 1)
                  /\ g[i + 1][2].c = AskedCentre
                  /\ g[i + 1][2].r = AskedRadii]_vars

C10_Witness ==
    /\ calls # <<>>
    /\ Last(calls) = <<"Circle", <<100, 50, 50>>>>
    /\ Len(Groups(sink)) = 16
    /\ Last(sink)[2].a2 = 11520

(***************************************************************************)
(* encodeYCbCrStream on its own, lines 110-136: one decoded luma/chroma    *)
(* raster, encoded once into an empty sink.                                *)
(***************************************************************************)
Ratios == {"444", "422", "420"}

\* The chroma planes are as wide and as high as the ratio makes them.
ChromaW(ratio, w) == IF ratio = "444" THEN w ELSE (w + 1) \div 2

ChromaH(ratio, h) == IF ratio = "420" THEN (h + 1) \div 2 ELSE h

\* The samples of a plane of len bytes: each index has its own value, in
\* the middle of the range so that no channel is clamped for most of them.
Plane(len, base, step, seed) == [k \in 1..len |-> base + step * (k - 1) + seed]

\* A raster as image.Decode builds it: a stride is the width of its plane
\* or more (pad), and the planes hold stride * height samples.
YCbCrRaster(ratio, w, h, ypad, cpad, seed) ==
    LET ys == w + ypad
        cs == ChromaW(ratio, w) + cpad
    IN  [kind |-> "YCbCr", w |-> w, h |-> h, ratio |-> ratio,
         YStride |-> ys, CStride |-> cs,
         Y |-> Plane(ys * h, 64, 5, seed),
         Cb |-> Plane(cs * ChromaH(ratio, h), 112, 2, seed),
         Cr |-> Plane(cs * ChromaH(ratio, h), 150, -2, seed)]

YCbCrRasters ==
    {YCbCrRaster(ratio, w, h, ypad, cpad, seed) :
        ratio \in Ratios, w \in 1..MaxSide, h \in 1..MaxSide,
        ypad \in 0..1, cpad \in 0..1, seed \in {0, 3}}

NewDocYCbCr == Fresh /\ s = <<>> /\ img \in YCbCrRasters

NextYCbCr == Encode

SpecYCbCr == NewDocYCbCr /\ [][NextYCbCr]_vars

\* The chroma index the claim gives for the pixel (x, y).
ClaimedChroma(ratio, x, y) ==
    CASE ratio = "444" -> <<x, y>>
      [] ratio = "422" -> <<x \div 2, y>>
      [] ratio = "420" -> <<x \div 2, y \div 2>>

\* C11: encodeYCbCrStream writes exactly 3*w*h bytes, and the bytes
\* 3*(y*w + x) .. 3*(y*w + x) + 2 are the RGB of the luma sample at
\* y*YStride + x and the two chroma samples at j*CStride + i, where (i, j)
\* is (x, y) with no subsampling, (x div 2, y) for 4:2:2 and
\* (x div 2, y div 2) for 4:2:0.
C11_YCbCrIndexing ==
    (Encoded /\ img.kind = "YCbCr")
    => /\ Len(sink) = 3 * img.w * img.h
       /\ \A x \in 0..(img.w - 1) : \A y \in 0..(img.h - 1) :
             LET ij == ClaimedChroma(img.ratio, x, y)
                 rgb == YCbCrToRGB(img.Y[y * img.YStride + x + 1],
                                   img.Cb[ij[2] * img.CStride + ij[1] + 1],
                                   img.Cr[ij[2] * img.CStride + ij[1] + 1])
             IN  \A c \in 1..3 :
                    sink[3 * (y * img.w + x) + c] = Tok("byte", rgb[c])

C11_Witness ==
    /\ Encoded
    /\ img.kind = "YCbCr"
    /\ img.ratio = "420"
    /\ img.w = 3
    /\ img.h = 2
    /\ img.CStride = 3
    /\ Len(sink) = 18
    /\ sink[16] = Tok("byte", YCbCrToRGB(img.Y[img.YStride + 3], img.Cb[2],
                                         img.Cr[2])[1])

====
